---- MODULE Spec2Model ----
(***************************************************************************)
(* ZenReader folder synchronisation: the sync orchestrator of App.tsx      *)
(* (performConnectAndSync, the debounced auto-sync effect, syncStateToDisk),*)
(* the descriptor codec and permission gate of fsHelpers.ts and the       *)
(* IndexedDB repository of db.ts, as one device working on one folder     *)
(* whose descriptor other devices may replace.                            *)
(*                                                                         *)
(* Each action is the code that runs between two awaits of a handler.     *)
(* User handlers other than the sync cycle are one action each.           *)
(***************************************************************************)
EXTENDS Integers, FiniteSets, Sequences, TLC

(* ------------------------------ bounds --------------------------------- *)

\* number of distinct book files (identifiers) in the model
NumBooks == 1
\* largest reading position; every book has MaxPage + 1 chapters
MaxPage == 1
\* largest value Date.now() returns, and largest remote timestamp
MaxTime == 1
\* how many user operations may run while one full cycle is in flight
MaxInterference == 1
\* how many changes one armed debounce timer is counted to have collapsed
MaxBurst == 2
\* longest file name, in characters, handed to processFile
MaxNameLen == 4
\* largest byte size of a file handed to processFile
MaxFileSize == 10
\* largest number of entries of one directory handed to the scanner
MaxDirLen == 2
NumDevices == 3         \* devices sharing one folder
MaxClock == 3           \* last instant of the shared clock
MaxTurn == 2            \* last page a reader turns to on a shared document
PairNameLen == 2        \* length of the names of two files imported together

BookIds == 1..NumBooks
Pages == 0..MaxPage
Times == 0..MaxTime

(* ------------------------------ data ----------------------------------- *)

EmptyMap == [i \in {} |-> 0]

\* ReaderSettings, reduced to two of its fields
SettingFields == {"theme", "focusMode"}
DEFAULT_SETTINGS == [theme |-> "light", focusMode |-> FALSE]

\* mutant of the spread: { ...patch, ...prev }, the local fields win
Spread_LocalWins(prev, patch) ==
  [f \in DOMAIN prev \cup DOMAIN patch |->
     IF f \in DOMAIN prev THEN prev[f] ELSE patch[f]]

\* { ...prev, ...patch }
Spread(prev, patch) ==
  [f \in DOMAIN prev \cup DOMAIN patch |->
     IF f \in DOMAIN patch THEN patch[f] ELSE prev[f]]

\* the BookData processFile builds: position 0, lastReadAt = Date.now()
NewBook(id, t) ==
  [id |-> id, content |-> "text", chapters |-> MaxPage + 1,
   currentPageIndex |-> 0, lastReadAt |-> t, filename |-> id]

\* store.put(book) on the books store (keyPath id)
PutBook(store, book) ==
  [i \in DOMAIN store \cup {book.id} |-> IF i = book.id THEN book ELSE store[i]]

\* db.ts updateBookProgress: the stored record gets the page and Date.now()
UpdateBookProgress(store, id, pageIndex, t) ==
  IF id \in DOMAIN store
    THEN [store EXCEPT ![id] = [@ EXCEPT !.currentPageIndex = pageIndex,
                                         !.lastReadAt = t]]
    ELSE store

\* prevBooks.map(b => b.id === id ? updatedBook : b)
MapReplace(list, id, pageIndex, t) ==
  [i \in DOMAIN list |->
     IF i = id THEN [list[i] EXCEPT !.currentPageIndex = pageIndex,
                                    !.lastReadAt = t]
     ELSE list[i]]

(* ------------------------- document identifiers ------------------------ *)

\* character codes of the file names in the model: "a", "b"
NameChars == {97, 98}

FileNames == UNION {[1..n -> NameChars] : n \in 1..MaxNameLen}

FileSizes == 0..MaxFileSize

\* String(n) of a non-negative integer: its decimal digits as character codes
RECURSIVE Decimal(_)
Decimal(n) ==
  IF n < 10 THEN <<48 + n>> ELSE Append(Decimal(n \div 10), 48 + (n % 10))

\* processFile: `${file.name}_${file.size}`
IdSeed(file) == file.name \o <<95>> \o Decimal(file.size)

\* a 32-bit integer as its two 16-bit halves <<high, low>>
\* hash = ((hash << 5) - hash) + char; hash = hash & hash
HashStep(hash, char) ==
  LET low == 31 * hash[2] + char
      high == 31 * hash[1] + (low \div 65536)
  IN <<high % 65536, low % 65536>>

RECURSIVE HashOf(_, _)
HashOf(seed, i) ==
  IF i = 0 THEN <<0, 0>> ELSE HashStep(HashOf(seed, i - 1), seed[i])

\* Math.abs of the 32-bit two's complement value
Abs32(hash) ==
  IF hash[1] < 32768 THEN hash
  ELSE <<(65535 - hash[1] + (IF hash[2] = 0 THEN 1 ELSE 0)) % 65536,
         (65536 - hash[2]) % 65536>>

\* Number.prototype.toString(36): the digits, most significant first, each
\* as its value 0..35
RECURSIVE ToString36(_)
ToString36(n) ==
  LET mid == (n[1] % 36) * 65536 + n[2]
      quotient == <<n[1] \div 36, mid \div 36>>
  IN IF quotient = <<0, 0>> THEN <<mid % 36>>
     ELSE Append(ToString36(quotient), mid % 36)

\* String.prototype.padEnd(8, 'x'); 'x' is the digit 33
RECURSIVE PadEnd(_)
PadEnd(str) == IF Len(str) >= 8 THEN str ELSE PadEnd(Append(str, 33))

\* utils.ts generateId: seeded, a hash of the seed and its length; unseeded,
\* the clock and Math.random()
GenerateId(seed, t, random) ==
  IF Len(seed) > 0
    THEN PadEnd(ToString36(Abs32(HashOf(seed, Len(seed)))))
           \o ToString36(<<0, Len(seed)>>)
    ELSE ToString36(<<0, t>>) \o ToString36(<<0, random>>)

\* mutant of processFile: generateId() is called without the seed
ProcessFileId_Unseeded(file, t, random) ==
  GenerateId(<<>>, t, random)

\* processFile: the identifier of the document built from a file
ProcessFileId(file, t, random) ==
  GenerateId(IdSeed(file), t, random)

(* ----------------------------- folder scanner -------------------------- *)

\* name.toLowerCase() of the extensions in the model
ToLowerCase(ext) == IF ext = "PDF" THEN "pdf" ELSE ext

\* name.endsWith('.txt') || name.endsWith('.epub') || name.endsWith('.pdf')
Supported(ext) == ToLowerCase(ext) \in {"txt", "epub", "pdf"}

\* a file entry; entry.getFile() throws when it is not readable
FileEntries == [kind : {"file"}, ext : {"txt", "PDF", "jpg"}, readable : BOOLEAN]

\* a sub-directory entry; iterating its values() throws when it is not
\* readable
SubDirEntries ==
  [kind : {"directory"}, readable : BOOLEAN,
   entries : UNION {[1..n -> FileEntries] : n \in 0..MaxDirLen}]

\* the directory handle the scan starts from
RootDirs ==
  [kind : {"directory"}, readable : {TRUE},
   entries : UNION {[1..n -> FileEntries \cup SubDirEntries] :
                      n \in 0..MaxDirLen}]

\* utils.ts scanDirectoryForFiles: one try block around the whole loop; the
\* result lists each file by its path of entry positions
RECURSIVE ScanDirectoryForFiles(_, _)
RECURSIVE ScanLoop(_, _, _, _)
ScanLoop(dir, path, i, files) ==
  IF i > Len(dir.entries) THEN files
  ELSE LET entry == dir.entries[i] IN
    IF entry.kind = "file"
      THEN IF ~entry.readable
             THEN files
             ELSE ScanLoop(dir, path, i + 1,
                           IF Supported(entry.ext)
                             THEN Append(files, Append(path, i))
                             ELSE files)
      ELSE ScanLoop(dir, path, i + 1,
                    files \o ScanDirectoryForFiles(entry, Append(path, i)))

ScanDirectoryForFiles(dirHandle, path) ==
  IF ~dirHandle.readable THEN <<>> ELSE ScanLoop(dirHandle, path, 1, <<>>)

(* --------------------------- descriptor file --------------------------- *)

AbsentFile == [kind |-> "absent"]
CorruptFile == [kind |-> "corrupt"]
JsonFile(data) == [kind |-> "json", data |-> data]

\* mutants of readSyncFile: the missing file, or the JSON.parse error,
\* escapes the try block
ReadSyncFile_MissingThrows(file) ==
  IF file.kind = "json"
    THEN [threw |-> FALSE, isNull |-> FALSE, data |-> file.data]
    ELSE [threw |-> file.kind = "absent", isNull |-> TRUE,
          data |-> [progress |-> EmptyMap]]

ReadSyncFile_ParseThrows(file) ==
  IF file.kind = "json"
    THEN [threw |-> FALSE, isNull |-> FALSE, data |-> file.data]
    ELSE [threw |-> file.kind = "corrupt", isNull |-> TRUE,
          data |-> [progress |-> EmptyMap]]

\* fsHelpers.ts readSyncFile: any failure (no file, bad JSON) yields null
ReadSyncFile(file) ==
  IF file.kind = "json"
    THEN [threw |-> FALSE, isNull |-> FALSE, data |-> file.data]
    ELSE [threw |-> FALSE, isNull |-> TRUE, data |-> [progress |-> EmptyMap]]

\* mutant of syncStateToDisk: the whole BookData goes into the progress map
ProgressMap_WholeBook(currentBooks) ==
  [i \in DOMAIN currentBooks |-> currentBooks[i]]

\* App.tsx syncStateToDisk: the SyncState handed to writeSyncFile
ProgressMap(currentBooks) ==
  [i \in DOMAIN currentBooks |->
     [pageIndex |-> currentBooks[i].currentPageIndex,
      lastReadAt |-> currentBooks[i].lastReadAt]]

SyncData(currentBooks, currentSettings, t) ==
  [updatedAt |-> t, settings |-> currentSettings,
   progress |-> ProgressMap(currentBooks)]

\* fsHelpers.ts verifyPermission: query, then request
PermissionStates == {"granted", "prompt", "denied"}
VerifyPermission(queried, requested) ==
  IF queried = "granted" THEN TRUE
  ELSE IF requested = "granted" THEN TRUE
  ELSE FALSE

\* mutants of the merge rule: without the newer-wins half, without the
\* unread half, and adopting whatever the descriptor holds
ShouldAdopt_OnlyUnread(remoteProg, book) ==
  book.currentPageIndex = 0

ShouldAdopt_OnlyNewer(remoteProg, book) ==
  remoteProg.lastReadAt > book.lastReadAt

ShouldAdopt_Always(remoteProg, book) ==
  TRUE

\* mutant of the merge rule: >= in place of >
ShouldAdopt_OrEqual(remoteProg, book) ==
  remoteProg.lastReadAt >= book.lastReadAt \/ book.currentPageIndex = 0

(* merge rule of performConnectAndSync *)
ShouldAdopt(remoteProg, book) ==
  remoteProg.lastReadAt > book.lastReadAt \/ book.currentPageIndex = 0

\* ids the merge loop will adopt, from the snapshot it iterates
AdoptSet(remoteData, currentAllBooks) ==
  {i \in DOMAIN currentAllBooks :
     /\ i \in DOMAIN remoteData.progress
     /\ ShouldAdopt(remoteData.progress[i], currentAllBooks[i])}

\* getAllBooks order: key order, then a stable sort by lastReadAt descending
FirstInOrder(ids, list) ==
  CHOOSE i \in ids :
    \A j \in ids \ {i} :
      \/ list[i].lastReadAt > list[j].lastReadAt
      \/ (list[i].lastReadAt = list[j].lastReadAt /\ i < j)

(* ------------------------------ state ---------------------------------- *)

VARIABLES
  now,            \* last value Date.now() returned
  db,             \* IndexedDB 'books' store: id -> BookData
  dbHandle,       \* IndexedDB 'handles' store holds the folder handle
  books,          \* React state books
  settings,       \* React state settings
  syncHandle,     \* React state syncHandle is set
  isSyncConnected,
  syncStatus,
  isLoading,
  view,
  activeBook,     \* id of the open book, 0 when none
  timerPending,   \* changes collapsed into the armed debounce timer of the
                  \* auto-sync effect, 0 when no timer is armed
  revertPending,  \* a 3 s status-revert timeout is pending
  remote,         \* the descriptor file in the folder
  folderFiles,    \* book files present in the folder
  manual,         \* the running performConnectAndSync, its locals
  auto,           \* the running performSync of the auto-sync effect
  lastCycle,      \* what the last full cycle wrote, while nothing changed since
  call,           \* a part examined on its own: a helper function's
                  \* inputs and result, or the devices sharing one folder
  unverified      \* folder operations issued by a handler that did not
                  \* call verifyPermission before them

vars == <<now, db, dbHandle, books, settings, syncHandle, isSyncConnected,
          syncStatus, isLoading, view, activeBook, timerPending,
          revertPending, remote, folderFiles, manual, auto,
          lastCycle, call, unverified>>

NoData == [progress |-> EmptyMap]

NoCall == [op |-> "none"]

NoCycle == [valid |-> FALSE, data |-> SyncData(EmptyMap, DEFAULT_SETTINGS, 0)]

ManualIdle ==
  [pc |-> "idle", books |-> EmptyMap, settings |-> DEFAULT_SETTINGS,
   remoteState |-> [threw |-> FALSE, isNull |-> TRUE, data |-> NoData],
   files |-> {}, scanned |-> {}, hasChanges |-> FALSE,
   currentAllBooks |-> EmptyMap, loaded |-> EmptyMap, todo |-> {}, adopted |-> {},
   stateChanged |-> FALSE,
   syncData |-> SyncData(EmptyMap, DEFAULT_SETTINGS, 0),
   granted |-> FALSE, writeOk |-> TRUE, io |-> {}, interfered |-> 0,
   writes |-> 0, threw |-> {},
   pre |-> [db |-> EmptyMap, settings |-> DEFAULT_SETTINGS,
            remote |-> AbsentFile, dbHandle |-> FALSE, syncHandle |-> FALSE,
            isSyncConnected |-> FALSE, lastCycle |-> NoCycle]]

AutoIdle ==
  [pc |-> "idle", books |-> EmptyMap, settings |-> DEFAULT_SETTINGS,
   syncData |-> SyncData(EmptyMap, DEFAULT_SETTINGS, 0), interfered |-> 0,
   burst |-> 0, io |-> {}]


\* the settings snapshot another device left: one written before focusMode
\* existed, so that a local-only field remains
ForeignSettings == {[theme |-> "sepia"]}

ProgressEntries == [pageIndex : Pages, lastReadAt : Times]

ForeignProgress ==
  UNION {[S -> ProgressEntries] : S \in SUBSET BookIds}

ForeignData ==
  {[updatedAt |-> MaxTime, progress |-> p] : p \in ForeignProgress}
  \cup {[updatedAt |-> MaxTime, settings |-> s, progress |-> p] :
          s \in ForeignSettings, p \in ForeignProgress}

\* the descriptor file as the device first finds it: none, damaged, or
\* written by another device
FolderAsFound ==
  {AbsentFile, CorruptFile} \cup {JsonFile(d) : d \in ForeignData}

Init ==
  /\ now = 0
  /\ db = EmptyMap
  /\ dbHandle = FALSE
  /\ books = EmptyMap
  /\ settings = DEFAULT_SETTINGS
  /\ syncHandle = FALSE
  /\ isSyncConnected = FALSE
  /\ syncStatus = "idle"
  /\ isLoading = FALSE
  /\ view = "shelf"
  /\ activeBook = 0
  /\ timerPending = 0
  /\ revertPending = FALSE
  /\ remote \in FolderAsFound
  /\ folderFiles = {}
  /\ manual = ManualIdle
  /\ auto = AutoIdle
  /\ lastCycle = NoCycle
  /\ unverified = {}
  /\ call = NoCall

(* ------------------------------ helpers -------------------------------- *)

Min(a, b) == IF a < b THEN a ELSE b

\* mutant of the effect's guard: a handle alone arms the timer
Rearm_HandleOnly(connected, handle) ==
  IF handle THEN Min(timerPending + 1, MaxBurst) ELSE 0

\* the auto-sync effect re-runs after every change of books, settings,
\* isSyncConnected or syncHandle: the old timer is cleared, a new one is set
\* only when connected with a handle
Rearm(connected, handle) ==
  IF connected /\ handle THEN Min(timerPending + 1, MaxBurst) ELSE 0

\* the code between try-body and finally of the full cycle is one task
NotInTask == manual.pc # "done"

\* an operation outside the full cycle changed what the cycle works on
InterfereManual ==
  manual' = IF manual.pc = "idle" THEN manual
            ELSE [manual EXCEPT !.interfered = @ + 1]

\* a user operation ran while an auto-sync run was in flight
InterfereAuto ==
  auto' = IF auto.pc = "idle" THEN auto
          ELSE [auto EXCEPT !.interfered = @ + 1]

Interfere ==
  /\ InterfereManual
  /\ lastCycle' = NoCycle

\* the loading screen replaces the whole UI while isLoading is set
UiReady ==
  /\ NotInTask /\ ~isLoading
  /\ manual.pc # "idle" => manual.interfered < MaxInterference
  /\ auto.pc # "idle" => auto.interfered < MaxInterference

(* --------------------------- user operations --------------------------- *)

\* App.tsx handleImportBook -> handleBooksImport([file]) from the shelf
ImportBook(id) ==
  /\ InterfereAuto
  /\ UiReady /\ view = "shelf"
  /\ \E t \in now..MaxTime :
       /\ now' = t
       /\ IF id \in DOMAIN books
            THEN UNCHANGED <<db, books, timerPending, manual, lastCycle>>
            ELSE /\ db' = PutBook(db, NewBook(id, t))
                 /\ books' = db'
                 /\ timerPending' = Rearm(isSyncConnected, syncHandle)
                 /\ Interfere
  /\ UNCHANGED <<call, unverified, dbHandle, settings, syncHandle, isSyncConnected, syncStatus,
                 isLoading, view, activeBook, revertPending, remote,
                 folderFiles>>

\* App.tsx handleOpenBook
OpenBook(id) ==
  /\ InterfereAuto
  /\ UiReady /\ view = "shelf"
  /\ id \in DOMAIN books
  /\ LET maxIndex == books[id].chapters - 1
         validPageIndex == Min(books[id].currentPageIndex, maxIndex)
     IN \E t \in now..MaxTime :
          /\ now' = t
          /\ db' = UpdateBookProgress(db, id, validPageIndex, t)
          /\ books' = MapReplace(books, id, validPageIndex, t)
  /\ activeBook' = id
  /\ view' = "reader"
  /\ timerPending' = Rearm(isSyncConnected, syncHandle)
  /\ Interfere
  /\ UNCHANGED <<call, unverified, dbHandle, settings, syncHandle, isSyncConnected, syncStatus,
                 isLoading, revertPending, remote, folderFiles>>

\* App.tsx handlePageChange
handlePageChange(pageIndex) ==
  /\ InterfereAuto
  /\ UiReady /\ view = "reader"
  /\ activeBook # 0
  /\ \E t \in now..MaxTime :
       /\ now' = t
       /\ db' = UpdateBookProgress(db, activeBook, pageIndex, t)
       /\ books' = MapReplace(books, activeBook, pageIndex, t)
  /\ timerPending' = Rearm(isSyncConnected, syncHandle)
  /\ Interfere
  /\ UNCHANGED <<call, unverified, dbHandle, settings, syncHandle, isSyncConnected, syncStatus,
                 isLoading, view, activeBook, revertPending, remote,
                 folderFiles>>

\* deleteBook on the books store, for each id
DeleteBooks(store, ids) == [i \in DOMAIN store \ ids |-> store[i]]

\* App.tsx handleDeleteBooks(ids, deleteLocal): with deleteLocal and a handle
\* set, syncHandle.removeEntry(book.filename) for each book, each in its own
\* try (the browser lets it through or rejects it); then deleteBook for each
\* id, getAllBooks and setBooks
handleDeleteBooks(ids, deleteLocal) ==
  /\ InterfereAuto
  /\ UiReady /\ view = "shelf"
  /\ ids # {} /\ ids \subseteq DOMAIN books
  /\ IF deleteLocal /\ syncHandle
       THEN /\ \E allowed \in BOOLEAN :
                 folderFiles' = IF allowed
                                  THEN folderFiles \ {books[i].filename : i \in ids}
                                  ELSE folderFiles
            /\ unverified' = unverified \cup {"removeEntry"}
       ELSE UNCHANGED <<folderFiles, unverified>>
  /\ db' = DeleteBooks(db, ids)
  /\ books' = db'
  /\ timerPending' = Rearm(isSyncConnected, syncHandle)
  /\ Interfere
  /\ UNCHANGED <<call, now, dbHandle, settings, syncHandle, isSyncConnected,
                 syncStatus, isLoading, view, activeBook, revertPending,
                 remote>>

\* App.tsx handleCloseBook
handleCloseBook ==
  /\ InterfereAuto
  /\ UiReady /\ view = "reader"
  /\ view' = "shelf"
  /\ activeBook' = 0
  /\ books' = db
  /\ timerPending' = Rearm(isSyncConnected, syncHandle)
  /\ UNCHANGED <<call, unverified, now, db, dbHandle, settings, syncHandle, isSyncConnected,
                 syncStatus, isLoading, revertPending, remote, folderFiles, manual, lastCycle>>

\* App.tsx handleUpdateSettings, from the reader's controls
SettingsPatches == {[theme |-> "dark"]}

handleUpdateSettings(newSettings) ==
  /\ InterfereAuto
  /\ UiReady /\ view = "reader"
  /\ settings' = Spread(settings, newSettings)
  /\ timerPending' = Rearm(isSyncConnected, syncHandle)
  /\ Interfere
  /\ UNCHANGED <<call, unverified, now, db, dbHandle, books, syncHandle, isSyncConnected,
                 syncStatus, isLoading, view, activeBook, revertPending,
                 remote, folderFiles>>

(* ----------------------- the folder's other users ---------------------- *)

\* a book file is copied into the folder
ForeignAddFile(id) ==
  /\ NotInTask
  /\ id \notin folderFiles
  /\ folderFiles' = folderFiles \cup {id}
  /\ UNCHANGED <<call, unverified, now, db, dbHandle, books, settings, syncHandle,
                 isSyncConnected, syncStatus, isLoading, view, activeBook,
                 timerPending, revertPending, remote, manual,
                 auto, lastCycle>>

(* ------------------- full cycle: performConnectAndSync ----------------- *)

\* catch block of performConnectAndSync: status error, disconnected; the
\* auto-sync effect then clears its timer
CatchError ==
  /\ syncStatus' = "error"
  /\ isSyncConnected' = FALSE
  /\ timerPending' = 0

\* handleManualSync / handleConnectSyncFolder up to the first await
ManualStart ==
  /\ InterfereAuto
  /\ UiReady /\ view = "shelf"
  /\ manual.pc = "idle"
  /\ isLoading' = TRUE
  /\ syncStatus' = "syncing"
  /\ manual' = [ManualIdle EXCEPT
       !.pc = "verify", !.books = books, !.settings = settings,
       !.pre = [db |-> db, settings |-> settings, remote |-> remote,
                dbHandle |-> dbHandle, syncHandle |-> syncHandle,
                isSyncConnected |-> isSyncConnected,
                lastCycle |-> lastCycle]]
  /\ UNCHANGED <<call, unverified, now, db, dbHandle, books, settings, syncHandle,
                 isSyncConnected, view, activeBook, timerPending,
                 revertPending, remote, folderFiles, lastCycle>>

\* mutant of step 1: the handle is taken over and persisted before the
\* result of verifyPermission is looked at
ManualVerify_HandleFirst ==
  /\ manual.pc = "verify"
  /\ syncHandle' = TRUE
  /\ dbHandle' = TRUE
  /\ timerPending' = IF syncHandle THEN timerPending
                     ELSE Rearm(isSyncConnected, TRUE)
  /\ \E queried \in PermissionStates, requested \in PermissionStates :
       IF VerifyPermission(queried, requested)
         THEN /\ manual' = [manual EXCEPT !.pc = "save", !.granted = TRUE]
              /\ UNCHANGED syncStatus
         ELSE /\ syncStatus' = "error"
              /\ manual' = [manual EXCEPT !.pc = "done"]
  /\ UNCHANGED <<call, unverified, now, db, books, settings, isSyncConnected,
                 isLoading, view, activeBook, revertPending, remote,
                 folderFiles, auto, lastCycle>>

\* step 1: verifyPermission resolves; on denial status error and return
ManualVerify ==
  /\ manual.pc = "verify"
  /\ \E queried \in PermissionStates, requested \in PermissionStates :
       IF VerifyPermission(queried, requested)
         THEN /\ syncHandle' = TRUE
              /\ timerPending' = IF syncHandle THEN timerPending
                                 ELSE Rearm(isSyncConnected, TRUE)
              /\ manual' = [manual EXCEPT !.pc = "save", !.granted = TRUE]
              /\ UNCHANGED syncStatus
         ELSE /\ syncStatus' = "error"
              /\ manual' = [manual EXCEPT !.pc = "done"]
              /\ UNCHANGED <<syncHandle, timerPending>>
  /\ UNCHANGED <<call, unverified, now, db, dbHandle, books, settings, isSyncConnected,
                 isLoading, view, activeBook, revertPending, remote,
                 folderFiles, auto, lastCycle>>

\* step 2: saveDirectoryHandle
ManualSave ==
  /\ manual.pc = "save"
  /\ dbHandle' = TRUE
  /\ manual' = [manual EXCEPT !.pc = "read"]
  /\ UNCHANGED <<call, unverified, now, db, books, settings, syncHandle, isSyncConnected,
                 syncStatus, isLoading, view, activeBook, timerPending,
                 revertPending, remote, folderFiles, auto,
                 lastCycle>>

\* phase 1 A: readSyncFile
ManualRead ==
  /\ manual.pc = "read"
  /\ LET remoteState == ReadSyncFile(remote) IN
       IF remoteState.threw
         THEN /\ CatchError
              /\ manual' = [manual EXCEPT !.pc = "done", !.io = @ \cup {"read"}]
         ELSE /\ manual' = [manual EXCEPT !.pc = "scan",
                                          !.remoteState = remoteState,
                                          !.io = @ \cup {"read"}]
              /\ UNCHANGED <<syncStatus, isSyncConnected, timerPending>>
  /\ UNCHANGED <<call, unverified, now, db, dbHandle, books, settings, syncHandle, isLoading,
                 view, activeBook, revertPending, remote, folderFiles, auto, lastCycle>>

\* phase 1 B: scanDirectoryForFiles; handleBooksImport returns at once on
\* an empty list
ManualScan ==
  /\ manual.pc = "scan"
  /\ manual' = [manual EXCEPT
       !.pc = IF folderFiles = {} THEN "load" ELSE "import",
       !.files = folderFiles, !.scanned = folderFiles,
       !.io = @ \cup {"scan"}]
  /\ UNCHANGED <<call, unverified, now, db, dbHandle, books, settings, syncHandle,
                 isSyncConnected, syncStatus, isLoading, view, activeBook,
                 timerPending, revertPending, remote, folderFiles, auto, lastCycle>>

\* phase 1 C: one iteration of the loop of handleBooksImport
ManualImportFile ==
  /\ manual.pc = "import"
  /\ \E id \in manual.files : \E t \in now..MaxTime :
       /\ now' = t
       /\ IF id \in DOMAIN manual.books
            THEN /\ manual' = [manual EXCEPT !.files = @ \ {id},
                                             !.io = @ \cup {"import"}]
                 /\ UNCHANGED db
            ELSE /\ db' = PutBook(db, NewBook(id, t))
                 /\ manual' = [manual EXCEPT !.files = @ \ {id},
                                             !.hasChanges = TRUE,
                                             !.io = @ \cup {"import"}]
  /\ UNCHANGED <<call, unverified, dbHandle, books, settings, syncHandle, isSyncConnected,
                 syncStatus, isLoading, view, activeBook, timerPending,
                 revertPending, remote, folderFiles, auto,
                 lastCycle>>

\* end of handleBooksImport: reload the list if something was saved,
\* finally setIsLoading(false)
ManualImportDone ==
  /\ manual.pc = "import"
  /\ manual.files = {}
  /\ IF manual.hasChanges
       THEN /\ books' = db
            /\ timerPending' = Rearm(isSyncConnected, syncHandle)
       ELSE UNCHANGED <<books, timerPending>>
  /\ isLoading' = FALSE
  /\ manual' = [manual EXCEPT !.pc = "load"]
  /\ UNCHANGED <<call, unverified, now, db, dbHandle, settings, syncHandle, isSyncConnected,
                 syncStatus, view, activeBook, revertPending, remote,
                 folderFiles, auto, lastCycle>>

HasRemoteSettings(remoteState) ==
  ~remoteState.isNull /\ "settings" \in DOMAIN remoteState.data

\* the settings the write-back of a changed cycle carries
MergedSettings(localSettings, remoteState) ==
  IF HasRemoteSettings(remoteState)
    THEN Spread(localSettings, remoteState.data.settings)
    ELSE localSettings

\* book.currentPageIndex = remoteProg.pageIndex; book.lastReadAt = ...
AdoptInMemory(list, id, remoteProg) ==
  [list EXCEPT ![id] = [@ EXCEPT !.currentPageIndex = remoteProg.pageIndex,
                                 !.lastReadAt = remoteProg.lastReadAt]]

\* mutant of phase 2: with nothing merged the write-back is skipped and the
\* cycle goes straight to connected and success
ManualLoad_WritesOnlyChanges ==
  /\ manual.pc = "load"
  /\ LET remoteState == manual.remoteState
         currentAllBooks == db
         todo == IF remoteState.isNull THEN {}
                 ELSE AdoptSet(remoteState.data, currentAllBooks)
         stateChanged == HasRemoteSettings(remoteState)
     IN IF todo = {} /\ ~stateChanged
          THEN /\ books' = currentAllBooks
               /\ isSyncConnected' = TRUE
               /\ syncStatus' = "success"
               /\ timerPending' = Rearm(TRUE, syncHandle)
               /\ manual' = [manual EXCEPT !.pc = "done",
                                           !.currentAllBooks = currentAllBooks,
                                           !.loaded = currentAllBooks]
               /\ UNCHANGED settings
          ELSE /\ IF HasRemoteSettings(remoteState)
                    THEN /\ settings' = Spread(settings,
                                               remoteState.data.settings)
                         /\ timerPending' = Rearm(isSyncConnected, syncHandle)
                    ELSE UNCHANGED <<settings, timerPending>>
               /\ manual' = [manual EXCEPT
                    !.pc = IF todo # {} THEN "merge" ELSE "reload",
                    !.currentAllBooks = currentAllBooks,
                    !.loaded = currentAllBooks,
                    !.todo = todo,
                    !.stateChanged = stateChanged]
               /\ UNCHANGED <<books, isSyncConnected, syncStatus>>
  /\ UNCHANGED <<call, unverified, now, db, dbHandle, syncHandle, isLoading, view,
                 activeBook, revertPending, remote, folderFiles, auto,
                 lastCycle>>

\* phase 2: getAllBooks, the settings merge, and the merge loop up to its
\* first await; with nothing to adopt and nothing changed the write-back of
\* the unchanged list is issued here
ManualLoad ==
  /\ manual.pc = "load"
  /\ LET remoteState == manual.remoteState
         currentAllBooks == db
         todo == IF remoteState.isNull THEN {}
                 ELSE AdoptSet(remoteState.data, currentAllBooks)
         stateChanged == HasRemoteSettings(remoteState)
     IN /\ IF HasRemoteSettings(remoteState)
             THEN /\ settings' = Spread(settings, remoteState.data.settings)
                  /\ timerPending' = Rearm(isSyncConnected, syncHandle)
             ELSE UNCHANGED <<settings, timerPending>>
        /\ manual' = [manual EXCEPT
             !.pc = IF todo # {} THEN "merge"
                    ELSE IF stateChanged THEN "reload" ELSE "write",
             !.currentAllBooks = currentAllBooks,
             !.loaded = currentAllBooks,
             !.todo = todo,
             !.stateChanged = stateChanged,
             !.syncData = IF todo = {} /\ ~stateChanged
                            THEN SyncData(currentAllBooks, manual.settings, now)
                            ELSE @]
  /\ UNCHANGED <<call, unverified, now, db, dbHandle, books, syncHandle, isSyncConnected, syncStatus,
                 isLoading, view, activeBook, revertPending, remote,
                 folderFiles, auto, lastCycle>>

\* one adopting iteration of the merge loop: updateBookProgress commits
ManualMerge ==
  /\ manual.pc = "merge"
  /\ LET id == FirstInOrder(manual.todo, manual.loaded)
         remoteProg == manual.remoteState.data.progress[id]
     IN \E t \in now..MaxTime :
          /\ now' = t
          /\ db' = UpdateBookProgress(db, id, remoteProg.pageIndex, t)
          /\ manual' = [manual EXCEPT
               !.currentAllBooks = AdoptInMemory(@, id, remoteProg),
               !.todo = @ \ {id},
               !.adopted = @ \cup {id},
               !.stateChanged = TRUE,
               !.pc = IF manual.todo = {id} THEN "reload" ELSE "merge"]
  /\ UNCHANGED <<call, unverified, dbHandle, books, settings, syncHandle, isSyncConnected,
                 syncStatus, isLoading, view, activeBook, timerPending,
                 revertPending, remote, folderFiles, auto,
                 lastCycle>>

\* stateChanged: getAllBooks again, setBooks, and issue the write-back
ManualReload ==
  /\ manual.pc = "reload"
  /\ books' = db
  /\ timerPending' = Rearm(isSyncConnected, syncHandle)
  /\ manual' = [manual EXCEPT
       !.pc = "write",
       !.syncData = SyncData(db, MergedSettings(manual.settings,
                                                manual.remoteState), now)]
  /\ UNCHANGED <<call, unverified, now, db, dbHandle, settings, syncHandle, isSyncConnected,
                 syncStatus, isLoading, view, activeBook, revertPending,
                 remote, folderFiles, auto, lastCycle>>

\* mutant of phase 3: the rejection of writeSyncFile is caught and dropped
\* inside syncStateToDisk, the cycle goes on to connected and success
ManualWrite_SwallowsFailure ==
  /\ manual.pc = "write"
  /\ \E ok \in BOOLEAN :
       /\ remote' = IF ok THEN JsonFile(manual.syncData) ELSE remote
       /\ books' = IF manual.stateChanged THEN books
                   ELSE manual.currentAllBooks
       /\ isSyncConnected' = TRUE
       /\ syncStatus' = "success"
       /\ timerPending' = IF manual.stateChanged /\ isSyncConnected
                            THEN timerPending
                            ELSE Rearm(TRUE, syncHandle)
       /\ lastCycle' = IF ok THEN [valid |-> TRUE, data |-> manual.syncData]
                       ELSE lastCycle
       /\ manual' = [manual EXCEPT !.pc = "done", !.writeOk = ok,
                                   !.writes = @ + 1,
                                   !.io = @ \cup {"write"}]
  /\ UNCHANGED <<call, unverified, now, db, dbHandle, settings, syncHandle, isLoading, view,
                 activeBook, revertPending, folderFiles, auto>>

\* phase 3: writeSyncFile resolves or rejects; then connected and success,
\* or the catch block
ManualWrite ==
  /\ manual.pc = "write"
  /\ \E ok \in BOOLEAN :
       IF ok
         THEN /\ remote' = JsonFile(manual.syncData)
              /\ books' = IF manual.stateChanged THEN books
                          ELSE manual.currentAllBooks
              /\ isSyncConnected' = TRUE
              /\ syncStatus' = "success"
              /\ timerPending' = IF manual.stateChanged /\ isSyncConnected
                                   THEN timerPending
                                   ELSE Rearm(TRUE, syncHandle)
              /\ lastCycle' = [valid |-> TRUE, data |-> manual.syncData]
              /\ manual' = [manual EXCEPT !.pc = "done", !.writes = @ + 1,
                                          !.io = @ \cup {"write"}]
         ELSE /\ CatchError
              /\ manual' = [manual EXCEPT !.pc = "done", !.writeOk = FALSE,
                                          !.writes = @ + 1,
                                          !.threw = @ \cup {"write"},
                                          !.io = @ \cup {"write"}]
              /\ UNCHANGED <<remote, books, lastCycle>>
  /\ UNCHANGED <<call, unverified, now, db, dbHandle, settings, syncHandle, isLoading, view,
                 activeBook, revertPending, folderFiles, auto>>

\* saveDirectoryHandle, getAllBooks or updateBookProgress rejects inside the
\* try of performConnectAndSync: the catch block
ManualStepThrows ==
  /\ manual.pc \in {"save", "load", "merge", "reload"}
  /\ CatchError
  /\ manual' = [manual EXCEPT !.pc = "done", !.threw = @ \cup {manual.pc}]
  /\ UNCHANGED <<call, unverified, now, db, dbHandle, books, settings, syncHandle,
                 isLoading, view, activeBook, revertPending, remote,
                 folderFiles, auto, lastCycle>>

\* saveBook of a new file, or the getAllBooks that follows the loop, rejects
\* inside handleBooksImport: its own catch and finally, then the cycle goes
\* on after the await
ManualImportThrows ==
  /\ manual.pc = "import"
  /\ \/ \E id \in manual.files : id \notin DOMAIN manual.books
     \/ manual.files = {} /\ manual.hasChanges
  /\ isLoading' = FALSE
  /\ manual' = [manual EXCEPT !.pc = "load", !.threw = @ \cup {"import"},
                              !.io = @ \cup {"import"}]
  /\ UNCHANGED <<call, unverified, now, db, dbHandle, books, settings, syncHandle,
                 isSyncConnected, syncStatus, view, activeBook, timerPending,
                 revertPending, remote, folderFiles, auto, lastCycle>>

\* finally block: loading off, status revert scheduled
ManualReturn ==
  /\ manual.pc = "done"
  /\ isLoading' = FALSE
  /\ revertPending' = TRUE
  /\ manual' = ManualIdle
  /\ UNCHANGED <<call, unverified, now, db, dbHandle, books, settings, syncHandle,
                 isSyncConnected, syncStatus, view, activeBook, timerPending,
                 remote, folderFiles, auto, lastCycle>>

(* ------------------ auto-sync effect: debounced performSync ------------ *)

\* mutant of the auto-sync effect: no cleanup function, so the timer of
\* every change of a burst stays armed and fires on its own
TimerFire_NoCleanup ==
  /\ NotInTask
  /\ timerPending > 0
  /\ auto.pc = "idle"
  /\ timerPending' = timerPending - 1
  /\ syncStatus' = "syncing"
  /\ auto' = [auto EXCEPT !.pc = "verify", !.books = books,
                          !.settings = settings, !.burst = timerPending]
  /\ UNCHANGED <<call, unverified, now, db, dbHandle, books, settings, syncHandle,
                 isSyncConnected, isLoading, view, activeBook, revertPending,
                 remote, folderFiles, manual, lastCycle>>

\* the debounce timer fires: performSync starts with the books and settings
\* of the render that armed it
TimerFire ==
  /\ NotInTask
  /\ timerPending > 0
  /\ auto.pc = "idle"
  /\ timerPending' = 0
  /\ syncStatus' = "syncing"
  /\ auto' = [auto EXCEPT !.pc = "verify", !.books = books,
                          !.settings = settings, !.burst = timerPending]
  /\ UNCHANGED <<call, unverified, now, db, dbHandle, books, settings, syncHandle,
                 isSyncConnected, isLoading, view, activeBook, revertPending,
                 remote, folderFiles, manual, lastCycle>>

\* verifyPermission resolves; syncStateToDisk builds the descriptor
AutoVerify ==
  /\ NotInTask
  /\ auto.pc = "verify"
  /\ \E queried \in PermissionStates, requested \in PermissionStates :
       IF VerifyPermission(queried, requested)
         THEN /\ auto' = [auto EXCEPT !.pc = "write",
                         !.syncData = SyncData(auto.books, auto.settings, now)]
              /\ UNCHANGED syncStatus
         ELSE /\ syncStatus' = "error"
              /\ auto' = AutoIdle
  /\ UNCHANGED <<call, unverified, now, db, dbHandle, books, settings, syncHandle, isSyncConnected,
                 isLoading, view, activeBook, timerPending, revertPending,
                 remote, folderFiles, manual, lastCycle>>

\* mutant of the auto-sync run: after its write it reloads the document
\* list with setBooks, which re-runs the effect and arms a new timer
AutoWrite_Reloads ==
  /\ NotInTask
  /\ auto.pc = "write"
  /\ \E ok \in BOOLEAN :
       IF ok
         THEN /\ remote' = JsonFile(auto.syncData)
              /\ syncStatus' = "success"
              /\ revertPending' = TRUE
              /\ InterfereManual
         ELSE /\ syncStatus' = "error"
              /\ UNCHANGED <<remote, revertPending, manual>>
  /\ auto' = AutoIdle
  /\ books' = db
  /\ timerPending' = Rearm(isSyncConnected, syncHandle)
  /\ UNCHANGED <<call, unverified, now, db, dbHandle, settings, syncHandle,
                 isSyncConnected, isLoading, view, activeBook,
                 folderFiles, lastCycle>>

\* writeSyncFile resolves or rejects
AutoWrite ==
  /\ NotInTask
  /\ auto.pc = "write"
  /\ \E ok \in BOOLEAN :
       IF ok
         THEN /\ remote' = JsonFile(auto.syncData)
              /\ syncStatus' = "success"
              /\ revertPending' = TRUE
              /\ InterfereManual
         ELSE /\ syncStatus' = "error"
              /\ UNCHANGED <<remote, revertPending, manual>>
  /\ auto' = AutoIdle
  /\ UNCHANGED <<call, unverified, now, db, dbHandle, books, settings, syncHandle,
                 isSyncConnected, isLoading, view, activeBook, timerPending,
                 folderFiles, lastCycle>>

\* the 3 s timeout: success reverts to idle
StatusRevert ==
  /\ NotInTask
  /\ revertPending
  /\ revertPending' = FALSE
  /\ syncStatus' = IF syncStatus = "success" THEN "idle" ELSE syncStatus
  /\ UNCHANGED <<call, unverified, now, db, dbHandle, books, settings, syncHandle,
                 isSyncConnected, isLoading, view, activeBook, timerPending,
                 remote, folderFiles, manual, auto, lastCycle>>

(* --------------------------- specification ----------------------------- *)

NextCore ==
  \/ \E id \in BookIds : ImportBook(id)
  \/ \E id \in BookIds : OpenBook(id)
  \/ \E p \in Pages : handlePageChange(p)
  \/ handleCloseBook
  \/ \E patch \in SettingsPatches : handleUpdateSettings(patch)
  \/ \E id \in BookIds : ForeignAddFile(id)
  \/ ManualStart
  \/ ManualVerify
  \/ ManualSave
  \/ ManualRead
  \/ ManualScan
  \/ ManualImportFile
  \/ ManualImportDone
  \/ ManualLoad
  \/ ManualMerge
  \/ ManualReload
  \/ ManualWrite
  \/ ManualReturn

NextAuto ==
  \/ TimerFire
  \/ AutoVerify
  \/ AutoWrite
  \/ StatusRevert

Next == NextCore \/ NextAuto

\* one device, full cycles, the reader's operations and the auto-sync effect
Spec == Init /\ [][Next]_vars

\* full cycles and the reader's operations only
SpecCore == Init /\ [][NextCore]_vars

\* The descriptor another device wrote whose copy of a document (same file
\* name and byte size, hence the same id) has one unit more than the copy
\* here: its pageIndex ranges over that copy's units.
OtherCopyProgress ==
  UNION {[S -> [pageIndex : 0..(MaxPage + 1), lastReadAt : Times]] :
           S \in SUBSET BookIds}

InitOtherCopy ==
  /\ now = 0
  /\ db = EmptyMap
  /\ dbHandle = FALSE
  /\ books = EmptyMap
  /\ settings = DEFAULT_SETTINGS
  /\ syncHandle = FALSE
  /\ isSyncConnected = FALSE
  /\ syncStatus = "idle"
  /\ isLoading = FALSE
  /\ view = "shelf"
  /\ activeBook = 0
  /\ timerPending = 0
  /\ revertPending = FALSE
  /\ remote \in {JsonFile([updatedAt |-> MaxTime, progress |-> p]) :
                    p \in OtherCopyProgress}
  /\ folderFiles = {}
  /\ manual = ManualIdle
  /\ auto = AutoIdle
  /\ lastCycle = NoCycle
  /\ unverified = {}
  /\ call = NoCall

\* full cycles and the reader's operations against such a folder
SpecOtherCopy == InitOtherCopy /\ [][NextCore]_vars

\* a device that connects a folder holding neither descriptor nor book files
InitFresh ==
  /\ Init
  /\ remote = AbsentFile

NextOwnFolder ==
  \/ \E id \in BookIds : ImportBook(id)
  \/ \E id \in BookIds : OpenBook(id)
  \/ \E p \in Pages : handlePageChange(p)
  \/ handleCloseBook
  \/ \E patch \in SettingsPatches : handleUpdateSettings(patch)
  \/ ManualStart
  \/ ManualVerify
  \/ ManualSave
  \/ ManualRead
  \/ ManualScan
  \/ ManualLoad
  \/ ManualMerge
  \/ ManualReload
  \/ ManualWrite
  \/ ManualReturn
  \/ NextAuto

SpecAuto == InitFresh /\ [][NextOwnFolder]_vars

\* The state the init effect leaves in a later session: the library as
\* stored, and the folder handle of an earlier session read back from the
\* repository into syncHandle. isSyncConnected starts false.
StoredLibraries ==
  {EmptyMap} \cup
  {PutBook(EmptyMap, [NewBook(id, 0) EXCEPT !.currentPageIndex = p]) :
     id \in BookIds, p \in Pages}

InitRestored ==
  /\ now = 0
  /\ db \in StoredLibraries
  /\ dbHandle = TRUE
  /\ books = db
  /\ settings = DEFAULT_SETTINGS
  /\ syncHandle = dbHandle
  /\ isSyncConnected = FALSE
  /\ syncStatus = "idle"
  /\ isLoading = FALSE
  /\ view = "shelf"
  /\ activeBook = 0
  /\ timerPending = 0
  /\ revertPending = FALSE
  /\ remote \in {AbsentFile, JsonFile(SyncData(db, settings, 0))}
  /\ folderFiles \in SUBSET DOMAIN db
  /\ manual = ManualIdle
  /\ auto = AutoIdle
  /\ lastCycle = NoCycle
  /\ call = NoCall
  /\ unverified = {}

NextRestored ==
  \/ \E id \in BookIds : ImportBook(id)
  \/ \E id \in BookIds : OpenBook(id)
  \/ \E p \in Pages : handlePageChange(p)
  \/ handleCloseBook
  \/ \E patch \in SettingsPatches : handleUpdateSettings(patch)
  \/ \E ids \in SUBSET BookIds, deleteLocal \in BOOLEAN :
       handleDeleteBooks(ids, deleteLocal)
  \/ ManualStart
  \/ ManualVerify
  \/ ManualSave
  \/ ManualRead
  \/ ManualScan
  \/ ManualImportFile
  \/ ManualImportDone
  \/ ManualLoad
  \/ ManualMerge
  \/ ManualReload
  \/ ManualWrite
  \/ ManualReturn

\* a later session on the device's own folder: full cycles, the reader's
\* operations and deletions from the shelf
SpecRestored == InitRestored /\ [][NextRestored]_vars

\* a later session on a folder without book files, with the auto-sync effect
InitRestoredEmpty ==
  /\ InitRestored
  /\ folderFiles = {}

SpecRestoredAuto == InitRestoredEmpty /\ [][NextOwnFolder]_vars

\* the steps no user takes: the continuations of a running full cycle after
\* each await, the debounce timer, the auto-sync run and the status timeout
SystemSteps ==
  \/ ManualVerify
  \/ ManualSave
  \/ ManualRead
  \/ ManualScan
  \/ ManualLoad
  \/ ManualMerge
  \/ ManualReload
  \/ ManualWrite
  \/ ManualReturn
  \/ NextAuto

\* every awaited call settles and every timer that stays armed fires
SpecAutoFair == SpecAuto /\ WF_vars(SystemSteps)

\* full cycles and the reader's operations, with the repository's requests
\* allowed to fail
NextFault ==
  \/ NextCore
  \/ ManualStepThrows
  \/ ManualImportThrows

SpecFault == Init /\ [][NextFault]_vars

(* ------------------- helper functions, examined alone ------------------ *)

\* everything but the function under examination
appVars == <<now, db, dbHandle, books, settings, syncHandle, isSyncConnected,
             syncStatus, isLoading, view, activeBook, timerPending,
             revertPending, remote, folderFiles, manual, auto, lastCycle,
             unverified>>

\* the application as constructed, its folder not yet looked at
AppAtRest ==
  /\ now = 0
  /\ db = EmptyMap
  /\ dbHandle = FALSE
  /\ books = EmptyMap
  /\ settings = DEFAULT_SETTINGS
  /\ syncHandle = FALSE
  /\ isSyncConnected = FALSE
  /\ syncStatus = "idle"
  /\ isLoading = FALSE
  /\ view = "shelf"
  /\ activeBook = 0
  /\ timerPending = 0
  /\ revertPending = FALSE
  /\ remote = AbsentFile
  /\ folderFiles = {}
  /\ manual = ManualIdle
  /\ auto = AutoIdle
  /\ lastCycle = NoCycle
  /\ unverified = {}

\* two independent imports of one file: each run has its own clock, its own
\* Math.random() and its own number of documents imported before
Runs == {1, 2}

RunStates == [now : Times, random : 0..1, prior : 0..1]

InitId ==
  /\ AppAtRest
  /\ \E name \in FileNames, size \in FileSizes, run \in [Runs -> RunStates] :
       call = [op |-> "generateId",
               file |-> [name |-> name, size |-> size],
               run |-> run,
               id |-> [r \in {} |-> <<>>]]

\* processFile on one of the runs
ProcessFileRun(r) ==
  /\ call.op = "generateId"
  /\ r \notin DOMAIN call.id
  /\ call' = [call EXCEPT
       !.id = [q \in DOMAIN call.id \cup {r} |->
                 IF q = r
                   THEN ProcessFileId(call.file, call.run[r].now,
                                      call.run[r].random)
                   ELSE call.id[q]]]
  /\ UNCHANGED appVars

NextId == \E r \in Runs : ProcessFileRun(r)

SpecId == InitId /\ [][NextId]_vars

InitScan ==
  /\ AppAtRest
  /\ \E dir \in RootDirs :
       call = [op |-> "scan", dir |-> dir, done |-> FALSE, files |-> <<>>]

\* performConnectAndSync phase 1 B on the folder alone
ScanFolder ==
  /\ call.op = "scan"
  /\ ~call.done
  /\ call' = [call EXCEPT !.done = TRUE,
                          !.files = ScanDirectoryForFiles(call.dir, <<>>)]
  /\ UNCHANGED appVars

NextScan == ScanFolder

SpecScan == InitScan /\ [][NextScan]_vars

(* ------------------------ two files in one import --------------------- *)

\* character codes of these names: "A", "B", "a"
PairNameChars == {65, 66, 97}

PairFiles ==
  [name : [1..PairNameLen -> PairNameChars], size : FileSizes]

\* handleBooksImport on two files of the folder, into an empty library
InitPair ==
  /\ AppAtRest
  /\ \E first \in PairFiles, second \in PairFiles :
       call = [op |-> "import", files |-> <<first, second>>, next |-> 1,
               newBooks |-> {}, skipped |-> {}]

\* one iteration of the loop: processFile, then the check by id against the
\* books collected so far; a file whose id exists is not saved
ImportNextFile ==
  /\ call.op = "import"
  /\ call.next <= Len(call.files)
  /\ LET file == call.files[call.next]
         id == ProcessFileId(file, 0, 0)
         exists == \E b \in call.newBooks : b.id = id
     IN call' = [call EXCEPT
          !.next = @ + 1,
          !.newBooks = IF exists THEN @
                       ELSE @ \cup {[id |-> id, file |-> file]},
          !.skipped = IF exists THEN @ \cup {file} ELSE @]
  /\ UNCHANGED appVars

NextPair == ImportNextFile

SpecPair == InitPair /\ [][NextPair]_vars

(* ------------------------- the permission gate ------------------------ *)

\* mutant of the options: the read mode whatever readWrite says
PermissionMode_AlwaysRead(readWrite) == "read"

\* fsHelpers.ts: const options = { mode: readWrite ? 'readwrite' : 'read' }
PermissionMode(readWrite) == IF readWrite THEN "readwrite" ELSE "read"

PermissionModes == {"read", "readwrite"}

\* what requestPermission settles with: a permission state, or a rejection
\* (the browser refuses to prompt)
RequestOutcomes == PermissionStates \cup {"rejects"}

\* verifyPermission on a handle alone: the grants the handle holds for each
\* mode, and what a request for each mode would settle with
InitPermission ==
  /\ AppAtRest
  /\ \E handle \in [PermissionModes -> PermissionStates],
        answer \in [PermissionModes -> RequestOutcomes],
        readWrite \in BOOLEAN :
       call = [op |-> "verifyPermission", pc |-> "query", handle |-> handle,
               answer |-> answer, readWrite |-> readWrite,
               queried |-> <<>>, requested |-> <<>>, result |-> "none"]

\* await fileHandle.queryPermission(options)
VerifyQuery ==
  /\ call.op = "verifyPermission"
  /\ call.pc = "query"
  /\ LET mode == PermissionMode(call.readWrite)
     IN call' = [call EXCEPT
          !.queried = Append(@, mode),
          !.pc = IF call.handle[mode] = "granted" THEN "done" ELSE "request",
          !.result = IF call.handle[mode] = "granted" THEN "true" ELSE @]
  /\ UNCHANGED appVars

\* await fileHandle.requestPermission(options)
VerifyRequest ==
  /\ call.op = "verifyPermission"
  /\ call.pc = "request"
  /\ LET mode == PermissionMode(call.readWrite)
     IN call' = [call EXCEPT
          !.requested = Append(@, mode),
          !.pc = "done",
          !.result = IF call.answer[mode] = "rejects" THEN "threw"
                     ELSE IF call.answer[mode] = "granted" THEN "true"
                     ELSE "false"]
  /\ UNCHANGED appVars

NextPermission == VerifyQuery \/ VerifyRequest

SpecPermission == InitPermission /\ [][NextPermission]_vars

(* ---------------------- devices sharing one folder -------------------- *)

Devices == 1..NumDevices

\* the one document every device holds; its file is the same, so is its id
SharedDoc == 1

\* the merge loop of a full cycle run to its end at time t: every adopted
\* document is stored with the remote page and Date.now()
MergeAll(store, remoteData, t) ==
  [i \in DOMAIN store |->
     IF i \in AdoptSet(remoteData, store)
       THEN UpdateBookProgress(store, i, remoteData.progress[i].pageIndex, t)[i]
       ELSE store[i]]

\* Each device imported the document at time 0 and none has connected yet.
\* origin and folderOrigin record when a reader really turned to the page a
\* device, or the descriptor, holds (0: never).
InitDevices ==
  /\ AppAtRest
  /\ call = [op |-> "devices", clock |-> 0,
             store |-> [d \in Devices |->
                          PutBook(EmptyMap, NewBook(SharedDoc, 0))],
             connected |-> [d \in Devices |-> FALSE],
             origin |-> [d \in Devices |-> 0],
             folder |-> AbsentFile,
             folderOrigin |-> 0]

\* handlePageChange on device d, later than everything so far
DeviceTurnsPage(d, pageIndex) ==
  /\ call.op = "devices"
  /\ \E t \in (call.clock + 1)..MaxClock :
       call' = [call EXCEPT
         !.clock = t,
         !.store[d] = UpdateBookProgress(@, SharedDoc, pageIndex, t),
         !.origin[d] = t]
  /\ UNCHANGED appVars

\* performConnectAndSync on device d, from its read to its write-back
DeviceFullCycle(d) ==
  /\ call.op = "devices"
  /\ \E t \in call.clock..MaxClock :
       LET remoteState == ReadSyncFile(call.folder)
           adopts == ~remoteState.isNull
                     /\ AdoptSet(remoteState.data, call.store[d]) # {}
           merged == IF remoteState.isNull THEN call.store[d]
                     ELSE MergeAll(call.store[d], remoteState.data, t)
           kept == IF adopts THEN call.folderOrigin ELSE call.origin[d]
       IN call' = [call EXCEPT
            !.clock = t,
            !.store[d] = merged,
            !.origin[d] = kept,
            !.connected[d] = TRUE,
            !.folder = JsonFile(SyncData(merged, DEFAULT_SETTINGS, t)),
            !.folderOrigin = kept]
  /\ UNCHANGED appVars

\* the auto-sync run of a connected device d: the write-back alone
DeviceAutoSync(d) ==
  /\ call.op = "devices"
  /\ call.connected[d]
  /\ \E t \in call.clock..MaxClock :
       call' = [call EXCEPT
         !.clock = t,
         !.folder = JsonFile(SyncData(call.store[d], DEFAULT_SETTINGS, t)),
         !.folderOrigin = call.origin[d]]
  /\ UNCHANGED appVars

NextDevices ==
  \/ \E d \in Devices, p \in 1..MaxTurn : DeviceTurnsPage(d, p)
  \/ \E d \in Devices : DeviceFullCycle(d)
  \/ \E d \in Devices : DeviceAutoSync(d)

SpecDevices == InitDevices /\ [][NextDevices]_vars

(* ------------------------------ properties ----------------------------- *)

Prog(book) ==
  [pageIndex |-> book.currentPageIndex, lastReadAt |-> book.lastReadAt]

\* the try body of a full cycle has just ended and no user operation ran
\* while it was in flight
CycleEnded == manual.pc = "done" /\ manual.interfered = 0

\* the cycle reached its merge step with a descriptor
Merged == CycleEnded /\ manual.granted /\ ~manual.remoteState.isNull

RemoteProgress == manual.remoteState.data.progress

\* documents of the merge step's snapshot that have a remote entry
Both == DOMAIN manual.loaded \cap DOMAIN RemoteProgress

\* C1: newer-wins. A document whose remote entry is strictly newer than its
\* local lastReadAt at merge time has the remote pageIndex in the repository
\* after the cycle.
C1_NewerWins ==
  Merged =>
    \A d \in Both :
      RemoteProgress[d].lastReadAt > manual.loaded[d].lastReadAt
        => /\ d \in DOMAIN db
           /\ db[d].currentPageIndex = RemoteProgress[d].pageIndex

W1_NewerAdopted ==
  /\ Merged
  /\ \E d \in Both :
       /\ RemoteProgress[d].lastReadAt > manual.loaded[d].lastReadAt
       /\ manual.loaded[d].currentPageIndex # 0
       /\ RemoteProgress[d].pageIndex # manual.loaded[d].currentPageIndex

\* C2: an adopted remote entry is stored as a pair: after the cycle the
\* document has the remote pageIndex and the remote lastReadAt.
C2_AdoptsPair ==
  Merged =>
    \A d \in Both :
      ShouldAdopt(RemoteProgress[d], manual.loaded[d])
        => /\ d \in DOMAIN db
           /\ Prog(db[d]) = RemoteProgress[d]

\* C3: unread-yields-to-remote. A document at page 0 at merge time takes the
\* remote pageIndex whatever the order of the two timestamps.
C3_UnreadYields ==
  Merged =>
    \A d \in Both :
      manual.loaded[d].currentPageIndex = 0
        => /\ d \in DOMAIN db
           /\ db[d].currentPageIndex = RemoteProgress[d].pageIndex

W3_UnreadAdoptsOlder ==
  /\ Merged
  /\ \E d \in Both :
       /\ manual.loaded[d].currentPageIndex = 0
       /\ RemoteProgress[d].lastReadAt < manual.loaded[d].lastReadAt
       /\ RemoteProgress[d].pageIndex # 0
       /\ db[d].currentPageIndex = RemoteProgress[d].pageIndex

\* C4: local-newer is kept and written back. A document off page 0 whose
\* remote entry is strictly older keeps its stored record, and the descriptor
\* the cycle writes carries the local pair.
C4_LocalNewerKept ==
  Merged =>
    \A d \in Both :
      (/\ manual.loaded[d].currentPageIndex # 0
       /\ RemoteProgress[d].lastReadAt < manual.loaded[d].lastReadAt)
        => /\ d \in DOMAIN manual.pre.db
           /\ d \in DOMAIN db
           /\ db[d] = manual.pre.db[d]
           /\ "write" \in manual.io /\ manual.writeOk
                => /\ remote.kind = "json"
                   /\ d \in DOMAIN remote.data.progress
                   /\ remote.data.progress[d] = Prog(manual.pre.db[d])

W4_LocalNewerWritten ==
  /\ Merged
  /\ "write" \in manual.io /\ manual.writeOk
  /\ \E d \in Both :
       /\ manual.loaded[d].currentPageIndex # 0
       /\ RemoteProgress[d].lastReadAt < manual.loaded[d].lastReadAt
       /\ RemoteProgress[d].pageIndex # manual.loaded[d].currentPageIndex
       /\ remote.data.progress[d] # RemoteProgress[d]

\* C5: idempotence. A cycle that follows another with no local change and no
\* other writer in between writes the same settings and progress map.
C5_Idempotent ==
  (/\ CycleEnded
   /\ manual.pre.lastCycle.valid
   /\ "write" \in manual.io /\ manual.writeOk)
    => /\ remote.data.settings = manual.pre.lastCycle.data.settings
       /\ remote.data.progress = manual.pre.lastCycle.data.progress

\* C6: at most one sync cycle, manual or automatic, is in flight.
C6_OneCycleAtATime ==
  ~(manual.pc # "idle" /\ auto.pc # "idle")

DescriptorShape(data) ==
  /\ DOMAIN data \subseteq {"updatedAt", "settings", "progress"}
  /\ "progress" \in DOMAIN data
  /\ \A i \in DOMAIN data.progress :
       DOMAIN data.progress[i] = {"pageIndex", "lastReadAt"}
  /\ "settings" \in DOMAIN data => DOMAIN data.settings \subseteq SettingFields

\* C7: every descriptor handed to writeSyncFile, and so every descriptor this
\* device leaves in the folder, holds per document only pageIndex and
\* lastReadAt: no content, chapters or binary payload.
C7_NoContent ==
  /\ manual.pc = "write" => DescriptorShape(manual.syncData)
  /\ auto.pc = "write" => DescriptorShape(auto.syncData)
  /\ remote.kind = "json" => DescriptorShape(remote.data)

W7_WrittenWithBooks ==
  /\ remote.kind = "json"
  /\ DOMAIN remote.data.progress # {}
  /\ DOMAIN db # {}
  /\ auto.pc = "write"
  /\ DOMAIN auto.syncData.progress # {}

\* C8: first sync to a folder without descriptor. The cycle ends in success
\* and the descriptor has exactly one entry per stored document, each the
\* document's stored pair; nothing stored before the cycle was altered and
\* every scanned file is stored.
C8_FirstSync ==
  (/\ CycleEnded
   /\ manual.pre.remote.kind = "absent"
   /\ manual.granted /\ manual.writeOk)
    => /\ syncStatus = "success"
       /\ remote.kind = "json"
       /\ DOMAIN remote.data.progress = DOMAIN db
       /\ \A d \in DOMAIN db : remote.data.progress[d] = Prog(db[d])
       /\ \A d \in DOMAIN manual.pre.db :
            d \in DOMAIN db /\ db[d] = manual.pre.db[d]
       /\ manual.scanned \subseteq DOMAIN db

W8_FirstSyncDone ==
  /\ CycleEnded
  /\ manual.pre.remote.kind = "absent"
  /\ syncStatus = "success"
  /\ remote.kind = "json"
  /\ \/ \E d \in DOMAIN manual.pre.db : db[d].currentPageIndex # 0
     \/ manual.scanned \ DOMAIN manual.pre.db # {}

\* C9: a corrupt descriptor heals. readSyncFile gives null, the merge changes
\* no document and no setting, the cycle ends in success and the file is
\* replaced by the descriptor of the local state.
C9_CorruptHeals ==
  (/\ CycleEnded
   /\ manual.pre.remote.kind = "corrupt"
   /\ manual.granted /\ manual.writeOk)
    => /\ manual.remoteState.isNull
       /\ syncStatus = "success"
       /\ settings = manual.pre.settings
       /\ \A d \in DOMAIN manual.pre.db :
            d \in DOMAIN db /\ db[d] = manual.pre.db[d]
       /\ remote = JsonFile(SyncData(db, settings, manual.syncData.updatedAt))

W9_CorruptHealed ==
  /\ CycleEnded
  /\ manual.pre.remote.kind = "corrupt"
  /\ syncStatus = "success"
  /\ remote.kind = "json"
  /\ DOMAIN db # {}

\* C10: permission denial is a clean abort. Status error; documents,
\* settings, persisted and in-memory handle and descriptor are as before the
\* cycle, and the folder was not read, scanned, imported from or written.
C10_DenialCleanAbort ==
  (CycleEnded /\ ~manual.granted)
    => /\ syncStatus = "error"
       /\ db = manual.pre.db
       /\ settings = manual.pre.settings
       /\ dbHandle = manual.pre.dbHandle
       /\ syncHandle = manual.pre.syncHandle
       /\ remote = manual.pre.remote
       /\ manual.io = {}

W10_Denied ==
  /\ CycleEnded
  /\ ~manual.granted
  /\ syncStatus = "error"
  /\ ~manual.pre.dbHandle
  /\ DOMAIN db # {}

\* C11: a failed descriptor write is never swallowed. A full cycle whose
\* writeSyncFile rejects ends in status error, the failing step leaves the
\* repository as the merge committed it (each adopted document still has the
\* remote pageIndex), and an auto-sync run ends in success only with its
\* descriptor in the folder, otherwise in error.
C11_WriteFailureSurfaces ==
  /\ [](manual.pc = "done" /\ ~manual.writeOk
          => /\ syncStatus = "error"
             /\ manual.interfered = 0
                  => \A d \in manual.adopted :
                       /\ d \in DOMAIN db
                       /\ db[d].currentPageIndex = RemoteProgress[d].pageIndex)
  /\ [][manual.pc = "write" /\ manual'.pc = "done" => db' = db]_vars
  /\ [][auto.pc = "write" /\ auto'.pc = "idle"
          => \/ syncStatus' = "success" /\ remote' = JsonFile(auto.syncData)
             \/ syncStatus' = "error" /\ remote' = remote]_vars

W11_WriteFailedAfterMerge ==
  /\ manual.pc = "done" /\ ~manual.writeOk
  /\ manual.interfered = 0
  /\ syncStatus = "error"
  /\ \E d \in manual.adopted :
       /\ RemoteProgress[d].pageIndex # manual.loaded[d].currentPageIndex
       /\ db[d].currentPageIndex = RemoteProgress[d].pageIndex

\* C12: identifier determinism. Two independent imports of the same file name
\* and byte size yield the same identifier, whatever the clock, the random
\* source and the earlier imports of each run.
C12_IdDeterministic ==
  (call.op = "generateId" /\ DOMAIN call.id = Runs)
    => call.id[1] = call.id[2]

W12_SameIdTwice ==
  /\ call.op = "generateId" /\ DOMAIN call.id = Runs
  /\ call.run[1].now # call.run[2].now
  /\ call.run[1].random # call.run[2].random
  /\ call.run[1].prior # call.run[2].prior
  /\ Len(call.file.name) = MaxNameLen
  /\ call.file.size = MaxFileSize
  /\ call.id[1] = call.id[2]

\* the merge of document d was a no-op: its stored pair is the one the merge
\* step loaded, updateBookProgress was not called for it, and with nothing
\* adopted and no remote settings the merge is not reported as changed
MergeNoOp(d) ==
  /\ d \notin manual.adopted
  /\ d \in DOMAIN db
  /\ Prog(db[d]) = Prog(manual.loaded[d])
  /\ (manual.adopted = {} /\ ~HasRemoteSettings(manual.remoteState))
       => ~manual.stateChanged

\* C13 as stated: tie-break. A document whose remote lastReadAt equals its
\* local lastReadAt is left alone by the merge.
C13_TieNoOp ==
  Merged =>
    \A d \in Both :
      RemoteProgress[d].lastReadAt = manual.loaded[d].lastReadAt
        => MergeNoOp(d)

\* C13 as amended: tie-break. A document off page 0 whose remote lastReadAt
\* equals its local lastReadAt is left alone by the merge; a document at page
\* 0 takes the remote entry also on a tie.
C13_TieNoOpOffPageZero ==
  Merged =>
    \A d \in Both :
      (/\ RemoteProgress[d].lastReadAt = manual.loaded[d].lastReadAt
       /\ manual.loaded[d].currentPageIndex # 0)
        => MergeNoOp(d)

W13_TieKeptLocal ==
  /\ Merged
  /\ "write" \in manual.io
  /\ ~manual.stateChanged
  /\ \E d \in Both :
       /\ RemoteProgress[d].lastReadAt = manual.loaded[d].lastReadAt
       /\ manual.loaded[d].currentPageIndex # 0
       /\ RemoteProgress[d].pageIndex # manual.loaded[d].currentPageIndex
       /\ db[d] = manual.loaded[d]

\* C14: every descriptor write belongs to a cycle that first read the
\* descriptor: a full cycle and an auto-sync run that are about to call
\* writeSyncFile have called readSyncFile before.
C14_ReadBeforeWrite ==
  /\ manual.pc = "write" => "read" \in manual.io
  /\ auto.pc = "write" => "read" \in auto.io

\* nothing is in flight and no timer is armed: only a new cycle changes the
\* status from here
Quiescent ==
  /\ manual.pc = "idle" /\ auto.pc = "idle"
  /\ ~revertPending /\ timerPending = 0

\* C15: both terminal states revert to idle. Once the cycles have ended and
\* the display delay has run out, with no new cycle started or scheduled,
\* syncStatus is idle.
C15_TerminalStatesRevert ==
  Quiescent => syncStatus = "idle"

\* C16: debounce collapses bursts. An auto-sync run starts only from the one
\* armed timer and disarms it, so a burst of changes starts one run; every
\* change made while connected leaves the timer armed, so the run starts
\* after the last change; the run takes the document list and settings as of
\* the last change and hands exactly those to writeSyncFile.
C16_DebounceCollapses ==
  /\ [][auto.pc = "idle" /\ auto'.pc # "idle"
          => /\ timerPending > 0 /\ timerPending' = 0
             /\ auto'.burst = timerPending
             /\ auto'.books = books /\ auto'.settings = settings]_vars
  /\ [][((books' # books \/ settings' # settings)
           /\ isSyncConnected' /\ syncHandle') => timerPending' > 0]_vars
  /\ [](auto.pc = "write"
          => /\ auto.syncData.progress = ProgressMap(auto.books)
             /\ auto.syncData.settings = auto.settings)

W16_BurstInOneRun ==
  /\ auto.pc = "write"
  /\ auto.burst = MaxBurst
  /\ timerPending = 0
  /\ auto.interfered = 0 /\ manual.pc = "idle"
  /\ auto.books = books /\ auto.settings = settings
  /\ remote.kind = "json"
  /\ remote.data.settings # auto.syncData.settings
  /\ \E d \in DOMAIN remote.data.progress \cap DOMAIN auto.syncData.progress :
       remote.data.progress[d].pageIndex
         # auto.syncData.progress[d].pageIndex

\* C17: exactly one write-back per full cycle. A cycle that obtained
\* permission has called writeSyncFile exactly once when it ends, whether or
\* not the merge changed anything; no write is issued before the write-back
\* step, the status is not success before it, and a cycle that ends in
\* success has its descriptor in the folder.
C17_OneWriteBack ==
  /\ (manual.pc = "done" /\ manual.granted) => manual.writes = 1
  /\ manual.pc \notin {"idle", "done"}
       => manual.writes = 0 /\ syncStatus # "success"
  /\ (manual.pc = "done" /\ syncStatus = "success")
       => /\ manual.writes = 1 /\ manual.writeOk
          /\ remote = JsonFile(manual.syncData)

W17_UnchangedStillWritten ==
  /\ CycleEnded
  /\ manual.granted
  /\ ~manual.remoteState.isNull
  /\ ~manual.stateChanged
  /\ manual.writes = 1 /\ manual.writeOk
  /\ syncStatus = "success"
  /\ DOMAIN db # {}
  /\ remote # manual.pre.remote

\* the supported files a traversal that skips only the failing entries finds
RECURSIVE ReadableFiles(_, _, _)
ReadableFiles(dir, path, i) ==
  IF ~dir.readable \/ i > Len(dir.entries) THEN <<>>
  ELSE LET entry == dir.entries[i]
           here == IF entry.kind = "directory"
                     THEN ReadableFiles(entry, Append(path, i), 1)
                   ELSE IF entry.readable /\ Supported(entry.ext)
                     THEN <<Append(path, i)>>
                   ELSE <<>>
       IN here \o ReadableFiles(dir, path, i + 1)

\* C18: scanner sibling isolation. When getFile of one entry, or the
\* enumeration of one sub-directory, throws, the scan still returns every
\* supported file among the siblings and in the other sub-directories.
C18_SiblingIsolation ==
  (call.op = "scan" /\ call.done)
    => call.files = ReadableFiles(call.dir, <<>>, 1)

\* C19: import never clobbers a known document. No step of the import loop
\* of a sync cycle replaces or removes a document the repository holds.
C19_ImportSkipsKnown ==
  [][(manual.pc = "import" /\ manual'.files # manual.files)
       => \A d \in DOMAIN db : d \in DOMAIN db' /\ db'[d] = db[d]]_vars

\* C20: any exception aborts the cycle into error. Once a step of the full
\* cycle has thrown, the cycle is at its end with status error, and unless
\* the throwing step was the write-back itself nothing was written.
C20_ExceptionAborts ==
  manual.threw # {}
    => /\ manual.pc = "done"
       /\ syncStatus = "error"
       /\ "write" \notin manual.threw => manual.writes = 0

\* C21: settings merge is remote-wins. When the descriptor read carries a
\* settings snapshot, after the cycle every field of the snapshot has the
\* remote value locally, every other field has its value from before the
\* cycle, and the settings written back are those merged settings.
C21_SettingsRemoteWins ==
  (CycleEnded /\ manual.granted /\ HasRemoteSettings(manual.remoteState))
    => LET snapshot == manual.remoteState.data.settings IN
       /\ \A f \in DOMAIN snapshot : settings[f] = snapshot[f]
       /\ \A f \in DOMAIN settings \ DOMAIN snapshot :
            settings[f] = manual.pre.settings[f]
       /\ manual.writeOk
            => remote.kind = "json" /\ remote.data.settings = settings

W21_RemoteSettingsTaken ==
  /\ CycleEnded /\ manual.granted /\ manual.writeOk
  /\ HasRemoteSettings(manual.remoteState)
  /\ manual.pre.settings.theme = "dark"
  /\ settings = [theme |-> "sepia", focusMode |-> FALSE]
  /\ remote.data.settings = settings

\* ReaderView totalUnits: book.chapters.length (pageCount for a PDF)
TotalUnits(book) == book.chapters

\* C22: position stays in range. In every reachable state every document of
\* the local repository has 0 <= currentPageIndex <= totalUnits - 1.
C22_PositionInRange ==
  \A d \in DOMAIN db :
    db[d].currentPageIndex \in 0..(TotalUnits(db[d]) - 1)

\* C23: the changed flag is exact. At the end of the merge step stateChanged
\* is true if and only if some document's (currentPageIndex, lastReadAt) or
\* some settings field differs from its value before the merge.
C23_ChangedFlagExact ==
  (CycleEnded /\ manual.granted)
    => (manual.stateChanged
          <=> \/ \E d \in DOMAIN manual.loaded :
                   Prog(db[d]) # Prog(manual.loaded[d])
              \/ settings # manual.pre.settings)

C25_VerifyPermissionContract ==
  (call.op = "verifyPermission" /\ call.pc = "done")
    => LET mode == IF call.readWrite THEN "readwrite" ELSE "read"
           grant == call.handle[mode]
           outcome == call.answer[mode]
       IN /\ call.queried = <<mode>>
          /\ grant = "granted"
               => call.requested = <<>> /\ call.result = "true"
          /\ grant # "granted"
               => /\ call.requested = <<mode>>
                  /\ call.result = "true" <=> outcome = "granted"
                  /\ call.result = "false" <=> outcome \in {"prompt", "denied"}
                  /\ call.result = "threw" <=> outcome = "rejects"
          /\ call.result \in {"true", "false"}
               => (call.result = "true")
                    = VerifyPermission(grant, outcome)

W25_WriteDeniedAsFalse ==
  /\ call.op = "verifyPermission" /\ call.pc = "done"
  /\ call.readWrite
  /\ call.handle = [read |-> "granted", readwrite |-> "prompt"]
  /\ call.answer["readwrite"] = "denied"
  /\ call.requested = <<"readwrite">>
  /\ call.result = "false"

\* C26: genuine later progress is never lost across devices. No step
\* replaces the non-zero page a reader turned to on a device at some time
\* with a non-zero page a reader turned to at an earlier time.
C26_LaterProgressKept ==
  [][call.op = "devices"
       => \A d \in Devices :
            (call.origin[d] > 0 /\ call'.origin[d] > 0)
              => call'.origin[d] >= call.origin[d]]_vars

\* C27: remote progress never regresses. For a document with an entry in
\* the descriptor before and after a descriptor write, the lastReadAt after
\* the write is at least the lastReadAt before it.
C27_RemoteNeverRegresses ==
  [][(call.op = "devices" /\ call.folder.kind = "json")
       => \A i \in DOMAIN call.folder.data.progress
                  \cap DOMAIN call'.folder.data.progress :
            call'.folder.data.progress[i].lastReadAt
              >= call.folder.data.progress[i].lastReadAt]_vars

\* C28: auto-sync is gated on a successful connection in this session. A
\* debounce timer is armed, and an auto-sync run started, only while
\* isSyncConnected is true and a handle is set; isSyncConnected becomes true
\* only in the step of a full cycle whose write-back succeeded, and is false
\* after a step in which a full cycle throws. Every session here starts with
\* a handle restored from the repository and isSyncConnected false.
C28_AutoSyncGated ==
  /\ [](timerPending > 0 => isSyncConnected /\ syncHandle)
  /\ [][(auto.pc = "idle" /\ auto'.pc # "idle")
          => isSyncConnected /\ syncHandle]_vars
  /\ [][(~isSyncConnected /\ isSyncConnected')
          => /\ manual.pc = "write" /\ manual'.pc = "done"
             /\ manual'.writeOk
             /\ remote' = JsonFile(manual.syncData)]_vars
  /\ [][(manual'.threw # manual.threw /\ manual'.threw # {})
          => ~isSyncConnected']_vars
  /\ [][(remote' # remote /\ manual.pc # "write")
          => auto.pc = "write"]_vars

W28_RestoredHandleStaysSilent ==
  /\ syncHandle /\ ~isSyncConnected
  /\ settings.theme = "dark"
  /\ view = "reader"
  /\ timerPending = 0
  /\ auto.pc = "idle" /\ manual.pc = "idle"
  /\ lastCycle = NoCycle
  /\ remote = AbsentFile

AtRest ==
  /\ timerPending = 0
  /\ manual.pc = "idle"
  /\ auto.pc = "idle"
  /\ syncStatus # "syncing"

\* C29: sync quiesces. No step of an auto-sync run changes the document
\* list or the settings or arms the debounce timer; and if from some point
\* on the user performs no further action, the system reaches, and stays
\* in, a state with no pending debounce timer, no running cycle and
\* syncStatus other than syncing (so only finitely many writes occur).
C29_SyncQuiesces ==
  /\ [][auto'.pc # auto.pc
          => /\ books' = books /\ settings' = settings
             /\ timerPending' <= timerPending]_vars
  /\ (<>[][SystemSteps]_vars => <>[]AtRest)

W29_AtRestAfterAutoSync ==
  /\ AtRest
  /\ isSyncConnected
  /\ settings.theme = "dark"
  /\ remote.kind = "json"
  /\ remote.data.settings.theme = "dark"
  /\ lastCycle = NoCycle

\* C30: identifiers are collision-free. Two files whose (name, size) pairs
\* differ receive different identifiers, so when both have been through the
\* import loop neither was skipped as already existing.
C30_IdsCollisionFree ==
  (call.op = "import" /\ call.next > 2 /\ call.files[1] # call.files[2])
    => /\ ProcessFileId(call.files[1], 0, 0)
            # ProcessFileId(call.files[2], 0, 0)
       /\ call.skipped = {}

====
